---------------------------- MODULE Spec2Model ----------------------------
(***************************************************************************)
(* Solar panel monitor firmware (ESP32 Arduino sketches).                  *)
(*                                                                         *)
(* Three sketches share one derivation pipeline:                           *)
(*   "buzzer" : src/SolarPanel.ino lines 1-347   (web dashboard + buzzer)  *)
(*   "web"    : src/SolarPanel.ino lines 349-575 (web dashboard)           *)
(*   "serial" : src/sketch_feb5a.ino             (serial output only)      *)
(*                                                                         *)
(* Numbers.  The sketches compute in IEEE binary32/binary64.  Here a       *)
(* float is modelled by the real number it approximates:                   *)
(*   - the resistance and the ratio are exact fractions [n, d];            *)
(*   - the logarithm and the Steinhart sum are binary fixed point          *)
(*     (Q26 / Q28 / Q32), computed by series and long division;            *)
(*   - a temperature is an integer number of thousandths of a degree.      *)
(* Over the 4096 codes of the 12-bit converter the float pipeline stays    *)
(* within 0.0002 degrees of the real value and no code comes closer than   *)
(* 0.007 degrees to a threshold, so comparisons agree with the firmware.   *)
(* Strings are tuples of one-character strings.                            *)
(***************************************************************************)
EXTENDS Integers, Sequences, FiniteSets

VARIABLES
    variant,              \* which sketch runs: "buzzer", "web" or "serial"
    pc,                   \* position in loop(): "service" or "sample"
    now,                  \* millis(), 32 bit, as <<high 16 bits, low 16 bits>>
    lastTime,             \* unsigned long lastTime, same representation
    adcTherm,             \* int adcTherm of the latest sampling tick (-1: none)
    adcLDR,               \* int adcLDR of the latest sampling tick (-1: none)
    resistance,           \* float resistance of the latest sampling tick
    divisors,             \* history: what the resistance step divided by
    currentTemp,          \* float currentTemp (serial: steinhart), in 1/1000 C
    currentLightPercent,  \* int currentLightPercent (serial: lightPercent)
    currentStatus,        \* String currentStatus (serial: statusMsg)
    buzzerDuty,           \* duty last written with ledcWrite (buzzer sketch)
    sent,                 \* the HTTP response sent in this loop iteration
    ticked,               \* history: a sampling tick has completed
    prevStatus,           \* history: the status before the latest tick
    lastTick              \* history: the triple written by the latest tick

vars == <<variant, pc, now, lastTime, adcTherm, adcLDR, resistance, divisors,
          currentTemp, currentLightPercent, currentStatus, buzzerDuty,
          sent, ticked, prevStatus, lastTick>>

-----------------------------------------------------------------------------
(* Sensor settings *)

SERIES_RESISTOR == 10000
NOMINAL_RESISTANCE == 10000
NOMINAL_TEMPERATURE == 25
B_COEFFICIENT == 3950
ADC_MAX == 4095

\* TEMP_THRESHOLD of each sketch, in thousandths of a degree
TEMP_THRESHOLD(v) == IF v = "buzzer" THEN 32500 ELSE 30000

\* analogReadResolution(12): analogRead returns a code in 0 .. 4095
AdcCodes == 0 .. (2^12 - 1)

-----------------------------------------------------------------------------
(* Arithmetic helpers *)

Abs(x) == IF x < 0 THEN -x ELSE x

Sign(x) == IF x < 0 THEN -1 ELSE 1

\* C integer division: the quotient is truncated toward zero
TruncDiv(a, b) == Sign(a) * Sign(b) * (Abs(a) \div Abs(b))

RECURSIVE Gcd(_, _)
Gcd(a, b) == IF b = 0 THEN a ELSE Gcd(b, a % b)

\* A fraction n/d with d > 0, in lowest terms
Frac(n, d) ==
    LET g == Gcd(Abs(n), Abs(d))
        s == Sign(d)
    IN  [n |-> s * (n \div g), d |-> s * (d \div g)]

FracOfInt(i) == [n |-> i, d |-> 1]

FracSub(a, b) == Frac(a.n * b.d - b.n * a.d, a.d * b.d)

\* a / b for b # 0
FracDiv(a, b) == Frac(a.n * b.d, a.d * b.n)

\* a = b for fractions that are >= 0
FracEq(a, b) ==
    /\ a.n \div a.d = b.n \div b.d
    /\ (a.n % a.d) * b.d = (b.n % b.d) * a.d

\* a < b for fractions that are >= 0: whole parts first, then the remainders
FracLess(a, b) ==
    LET qa == a.n \div a.d
        qb == b.n \div b.d
    IN  IF qa # qb THEN qa < qb
        ELSE (a.n % a.d) * b.d < (b.n % b.d) * a.d

\* floor(n * 2^(steps * chunk) / d) for n >= 0 and d > 0 with d * 2^chunk < 2^31,
\* by long division, chunk bits at a time
RECURSIVE FixDivStep(_, _, _, _, _)
FixDivStep(q, r, d, steps, chunk) ==
    IF steps = 0 THEN q
    ELSE FixDivStep(q * 2^chunk + ((r * 2^chunk) \div d), (r * 2^chunk) % d,
                    d, steps - 1, chunk)

FixDiv(n, d, steps, chunk) == FixDivStep(n \div d, n % d, d, steps, chunk)

\* a * b / 2^28 for 0 <= a, b < 2^28, by 14 bit halves
MulQ28(a, b) ==
    LET h == 2^14
        ah == a \div h
        al == a % h
        bh == b \div h
        bl == b % h
    IN  ah * bh + ((ah * bl + al * bh) \div h) + ((al * bl) \div (h * h))

\* sum of zpow / k + zpow * z2 / (k + 2) + ..., all in Q28, until the power vanishes
RECURSIVE AtanhSeries(_, _, _)
AtanhSeries(zpow, z2, k) ==
    IF zpow = 0 THEN 0
    ELSE (zpow \div k) + AtanhSeries(MulQ28(zpow, z2), z2, k + 2)

\* atanh(z) = z + z^3/3 + z^5/5 + ... in Q28, for 0 <= z <= 1/3
AtanhQ28(z) == AtanhSeries(z, MulQ28(z, z), 1)

\* ln 2 = 2 atanh(1/3), in Q26
Ln2Q26 == (2 * AtanhQ28(FixDiv(1, 3, 4, 7))) \div 4

RECURSIVE Log2Floor(_)
Log2Floor(x) == IF x < 2 THEN 0 ELSE 1 + Log2Floor(x \div 2)

\* ln(x) in Q26 for an integer 1 <= x < 2^22:
\* x = 2^k * m with 1 <= m < 2, ln m = 2 atanh((m - 1) / (m + 1))
LnQ26(x) ==
    LET k == Log2Floor(x)
        z == FixDiv(x - 2^k, x + 2^k, 4, 7)
    IN  k * Ln2Q26 + ((2 * AtanhQ28(z)) \div 4)


-----------------------------------------------------------------------------
(* Thermal model *)

\* (ADC_MAX / (float)adcTherm) - 1
DividerTerm(raw) ==
    FracSub(FracDiv(FracOfInt(ADC_MAX), FracOfInt(raw)), FracOfInt(1))

\* the divider solved for the other leg: R_S * (ADC_MAX / raw - 1)
ResistanceInverted(raw) ==
    IF raw = 0 THEN FracOfInt(1000000)
    ELSE IF raw >= ADC_MAX THEN FracOfInt(0)
    ELSE Frac(SERIES_RESISTOR * DividerTerm(raw).n, DividerTerm(raw).d)

\* the division without its two edge branches
ResistanceUnguarded(raw) ==
    FracDiv(FracOfInt(SERIES_RESISTOR), DividerTerm(raw))

\* the two sentinels exchanged
ResistanceSwappedSentinels(raw) ==
    IF raw = 0 THEN FracOfInt(0)
    ELSE IF raw >= ADC_MAX THEN FracOfInt(1000000)
    ELSE FracDiv(FracOfInt(SERIES_RESISTOR), DividerTerm(raw))

\* the resistance estimate, in ohms
Resistance(raw) ==
    IF raw = 0 THEN FracOfInt(1000000)
    ELSE IF raw >= ADC_MAX THEN FracOfInt(0)
    ELSE FracDiv(FracOfInt(SERIES_RESISTOR), DividerTerm(raw))

\* the divisors of the two float divisions the resistance step evaluates
ResistanceDivisors(raw) ==
    IF raw = 0 THEN {}
    ELSE IF raw >= ADC_MAX THEN {}
    ELSE {FracOfInt(raw), DividerTerm(raw)}

\* 1.0 / (NOMINAL_TEMPERATURE + 273.15), in Q32
InvNominalQ32 == FixDiv(100, NOMINAL_TEMPERATURE * 100 + 27315, 2, 16)

\* the result left in kelvin
SteinhartKelvin(res) ==
    LET ratio == FracDiv(res, FracOfInt(NOMINAL_RESISTANCE))
        ln == LnQ26(ratio.n) - LnQ26(ratio.d)
        byB == Sign(ln) * FixDiv(Abs(ln), B_COEFFICIENT, 1, 6)
        sum == byB + InvNominalQ32
    IN  IF ratio.n = 0 \/ ratio.d = 0 THEN 0
        ELSE FixDiv(1000, sum, 8, 4)

\* The Steinhart computation on a resistance, in thousandths of a degree C.
\* A ratio of 0 has log -infinity and a ratio of +infinity (d = 0) has log
\* +infinity; either way the reciprocal is zero and the result is -273.15.
Steinhart(res) ==
    LET ratio == FracDiv(res, FracOfInt(NOMINAL_RESISTANCE))
        ln == LnQ26(ratio.n) - LnQ26(ratio.d)
        byB == Sign(ln) * FixDiv(Abs(ln), B_COEFFICIENT, 1, 6)
        sum == byB + InvNominalQ32
        kelvin == FixDiv(1000, sum, 8, 4)
    IN  IF ratio.n = 0 \/ ratio.d = 0 THEN 0 - 273150
        ELSE kelvin - 273150

-----------------------------------------------------------------------------
(* Irradiance model *)

\* a map that rounds the quotient to the nearest integer
MapRounded(x, in_min, in_max, out_min, out_max) ==
    LET num == (x - in_min) * (out_max - out_min)
        den == in_max - in_min
    IN  Sign(num) * Sign(den) * ((2 * Abs(num) + Abs(den)) \div (2 * Abs(den)))
        + out_min

\* long map(long x, long in_min, long in_max, long out_min, long out_max)
\* of the Arduino core: (x - in_min) * (out_max - out_min) / (in_max - in_min)
\* + out_min in integer arithmetic
Map(x, in_min, in_max, out_min, out_max) ==
    TruncDiv((x - in_min) * (out_max - out_min), in_max - in_min) + out_min

\* the two clamps
Clamp(p) == IF p < 0 THEN 0 ELSE IF p > 100 THEN 100 ELSE p

\* the in and out ranges of map given in the same order
LightPercentSwapped(raw) == Clamp(Map(raw, 0, 4095, 0, 100))

LightPercent(raw) == Clamp(Map(raw, 4095, 0, 0, 100))

-----------------------------------------------------------------------------
(* Status classifier *)

STATUS_OK == <<"O", "K">>

STATUS_NORMAL ==
    <<"S", "y", "s", "t", "e", "m", " ", "N", "o", "r", "m", "a", "l">>

STATUS_WARNING ==
    <<"W", "A", "R", "N", "I", "N", "G", ":", " ",
      "H", "I", "G", "H", " ", "T", "E", "M", "P", "!">>

\* every sketch keeping "OK" as its normal status
NormalStatusOk(v) == STATUS_OK

\* the status a tick leaves when the temperature is not above the threshold:
\* the web sketches assign "System Normal", the serial sketch keeps "OK"
NormalStatus(v) == IF v = "serial" THEN STATUS_OK ELSE STATUS_NORMAL

\* a warning that latches: once raised it stays
ClassifyLatched(v, temp) ==
    IF temp > TEMP_THRESHOLD(v) \/ currentStatus = STATUS_WARNING
    THEN STATUS_WARNING ELSE NormalStatus(v)

Classify(v, temp) ==
    IF temp > TEMP_THRESHOLD(v) THEN STATUS_WARNING ELSE NormalStatus(v)

\* a buzzer that latches: once on it stays on
BuzzerDutyLatched(temp) ==
    IF temp > TEMP_THRESHOLD("buzzer") \/ buzzerDuty = 128 THEN 128 ELSE 0

\* the duty the buzzer sketch writes with ledcWrite
BuzzerDutyFor(temp) == IF temp > TEMP_THRESHOLD("buzzer") THEN 128 ELSE 0

-----------------------------------------------------------------------------
(* String(int), String(float) and the JSON payload *)

DigitChars == <<"0", "1", "2", "3", "4", "5", "6", "7", "8", "9">>

\* the decimal digits of n >= 0
RECURSIVE NatToChars(_)
NatToChars(n) ==
    IF n < 10 THEN <<DigitChars[n + 1]>>
    ELSE NatToChars(n \div 10) \o <<DigitChars[(n % 10) + 1]>>

\* String(int)
IntToChars(i) == IF i < 0 THEN <<"-">> \o NatToChars(-i) ELSE NatToChars(i)

\* a temperature rounded to hundredths, half away from zero
RoundToCents(t) == Sign(t) * ((Abs(t) + 5) \div 10)

\* String(float) losing the sign
FloatToCharsUnsigned(t) ==
    LET c == Abs(RoundToCents(t))
    IN  NatToChars(c \div 100) \o <<".">>
        \o <<DigitChars[((c \div 10) % 10) + 1], DigitChars[(c % 10) + 1]>>

\* String(float): two decimal places, the sign kept when the value is negative
FloatToChars(t) ==
    LET c == Abs(RoundToCents(t))
    IN  (IF t < 0 THEN <<"-">> ELSE <<>>)
        \o NatToChars(c \div 100) \o <<".">>
        \o <<DigitChars[((c \div 10) % 10) + 1], DigitChars[(c % 10) + 1]>>

\* the String handleReadings builds from the three globals
ReadingsJson(temp, light, status) ==
    <<"{">>
    \o <<"\"", "t", "e", "m", "p", "\"", ":">> \o FloatToChars(temp) \o <<",">>
    \o <<"\"", "l", "i", "g", "h", "t", "\"", ":">> \o IntToChars(light) \o <<",">>
    \o <<"\"", "s", "t", "a", "t", "u", "s", "\"", ":", "\"">> \o status \o <<"\"">>
    \o <<"}">>

-----------------------------------------------------------------------------
(* Standard JSON decoding of an object of numbers and strings *)

ParseFail == [ok |-> FALSE]

At(s, i) == IF i >= 1 /\ i <= Len(s) THEN s[i] ELSE ""

IsDigit(c) == \E k \in 1 .. 10 : DigitChars[k] = c

DigitValue(c) == (CHOOSE k \in 1 .. 10 : DigitChars[k] = c) - 1

\* a JSON string starting after its opening quote at i
RECURSIVE ParseStringBody(_, _, _)
ParseStringBody(s, i, acc) ==
    IF i > Len(s) THEN ParseFail
    ELSE IF s[i] = "\"" THEN [ok |-> TRUE, val |-> acc, next |-> i + 1]
    ELSE IF s[i] = "\\" THEN
        IF At(s, i + 1) \in {"\"", "\\", "/"}
        THEN ParseStringBody(s, i + 2, Append(acc, s[i + 1]))
        ELSE ParseFail
    ELSE ParseStringBody(s, i + 1, Append(acc, s[i]))

ParseString(s, i) ==
    IF At(s, i) = "\"" THEN ParseStringBody(s, i + 1, <<>>) ELSE ParseFail

\* a run of digits from i: its value, its length and the index after it
RECURSIVE ParseDigits(_, _, _, _)
ParseDigits(s, i, acc, n) ==
    IF IsDigit(At(s, i))
    THEN ParseDigits(s, i + 1, acc * 10 + DigitValue(s[i]), n + 1)
    ELSE [val |-> acc, len |-> n, next |-> i]

\* a JSON number [-]int[.frac] with at most three fraction digits, as thousandths
ParseNumber(s, i) ==
    LET neg == At(s, i) = "-"
        int == ParseDigits(s, IF neg THEN i + 1 ELSE i, 0, 0)
        dot == At(s, int.next) = "."
        frac == ParseDigits(s, int.next + 1, 0, 0)
        milli == int.val * 1000
                 + (IF dot THEN frac.val * 10^(3 - frac.len) ELSE 0)
    IN  IF int.len = 0 THEN ParseFail
        ELSE IF int.len > 1 /\ At(s, IF neg THEN i + 1 ELSE i) = "0" THEN ParseFail
        ELSE IF dot /\ (frac.len = 0 \/ frac.len > 3) THEN ParseFail
        ELSE [ok |-> TRUE,
              val |-> IF neg THEN -milli ELSE milli,
              next |-> IF dot THEN frac.next ELSE int.next]

ParseValue(s, i) ==
    IF At(s, i) = "\"" THEN ParseString(s, i) ELSE ParseNumber(s, i)

\* the members of an object from i, collected as a sequence of <<key, value>>
RECURSIVE ParseMembers(_, _, _)
ParseMembers(s, i, acc) ==
    LET key == ParseString(s, i)
        val == ParseValue(s, key.next + 1)
        more == Append(acc, <<key.val, val.val>>)
    IN  IF ~key.ok THEN ParseFail
        ELSE IF At(s, key.next) # ":" THEN ParseFail
        ELSE IF ~val.ok THEN ParseFail
        ELSE IF At(s, val.next) = "," THEN ParseMembers(s, val.next + 1, more)
        ELSE IF At(s, val.next) = "}" /\ val.next = Len(s)
             THEN [ok |-> TRUE, members |-> more]
        ELSE ParseFail

ParseObject(s) ==
    IF At(s, 1) = "{" THEN ParseMembers(s, 2, <<>>) ELSE ParseFail

\* the (temp, light, status) triple a client decodes from a /readings payload;
\* temp in thousandths of a degree
KeyTemp == <<"t", "e", "m", "p">>
KeyLight == <<"l", "i", "g", "h", "t">>
KeyStatus == <<"s", "t", "a", "t", "u", "s">>

HasMember(obj, key) == \E k \in 1 .. Len(obj.members) : obj.members[k][1] = key

\* the value of the last member named key (a later duplicate wins)
Member(obj, key) ==
    LET ks == {k \in 1 .. Len(obj.members) : obj.members[k][1] = key}
        last == CHOOSE k \in ks : \A j \in ks : j <= k
    IN  obj.members[last][2]

DecodeReadings(s) ==
    LET obj == ParseObject(s)
    IN  IF ~obj.ok THEN ParseFail
        ELSE IF ~(HasMember(obj, KeyTemp) /\ HasMember(obj, KeyLight)
                  /\ HasMember(obj, KeyStatus)) THEN ParseFail
        ELSE [ok |-> TRUE,
              temp |-> Member(obj, KeyTemp),
              light |-> Member(obj, KeyLight) \div 1000,
              status |-> Member(obj, KeyStatus)]

\* s contains sub as a contiguous substring
Contains(s, sub) ==
    \E i \in 1 .. (Len(s) - Len(sub) + 1) : SubSeq(s, i, i + Len(sub) - 1) = sub

-----------------------------------------------------------------------------
(* millis(): unsigned 32 bit arithmetic on <<high, low>> halves of 16 bits *)

Half == 2^16

U32(hi, lo) == <<hi, lo>>

\* a + d modulo 2^32, for 0 <= d < 2^16
U32Add(a, d) ==
    LET lo == a[2] + d
    IN  <<(a[1] + (lo \div Half)) % Half, lo % Half>>

\* a - b modulo 2^32
U32Sub(a, b) ==
    LET lo == a[2] - b[2]
        borrow == IF lo < 0 THEN 1 ELSE 0
    IN  <<(a[1] - b[1] - borrow + Half) % Half, (lo + Half) % Half>>

\* a > k, for 0 <= k < 2^16
U32Gt(a, k) == a[1] > 0 \/ a[2] > k

\* const long interval
interval == 1000

\* a gate that also opens at exactly one interval
SampleDueAtInterval ==
    LET elapsed == U32Sub(now, lastTime)
    IN  elapsed[1] > 0 \/ elapsed[2] >= interval

\* millis() - lastTime > interval
SampleDue == U32Gt(U32Sub(now, lastTime), interval)

-----------------------------------------------------------------------------
(* Bounds of the model *)

\* the time one pass through handleClient may take: nothing, a short while,
\* or more than a sampling period
ShortDelay == 500
LongDelay == 1001

\* the clock stops advancing once it has passed MaxMillis
MaxMillis == 1600

\* the clock also advances in the last WrapMargin milliseconds before it
\* wraps around to 0
WrapMargin == 1400

\* thermistor codes are sampled every ThermStride codes, photoresistor codes
\* every LdrStride codes, plus the codes the claims name
ThermStride == 1365
LdrStride == 2048

\* millis() = 2^32 - WrapMargin
WrapStart == U32(Half - 1, Half - WrapMargin)

ClockRuns ==
    \/ now[1] = 0 /\ now[2] <= MaxMillis
    \/ now[1] = Half - 1 /\ now[2] >= WrapStart[2]

Delays == IF ClockRuns THEN {0, ShortDelay, LongDelay} ELSE {0}

ThermGrid ==
    {r \in AdcCodes : r % ThermStride = 0} \cup {0, 1718, 1800, 1826, ADC_MAX}

LdrGrid == {r \in AdcCodes : r % LdrStride = 0} \cup {0, 500, 2048, ADC_MAX}

GridInputs == ThermGrid \X LdrGrid

-----------------------------------------------------------------------------
(* The state machine *)

Variants == {"buzzer", "web", "serial"}

WebVariants == {"buzzer", "web"}

NoResponse == [code |-> 0, type |-> "", body |-> <<>>, location |-> ""]

\* the state when setup() returns: the globals as initialised, the clock
\* after setup's delay(100)
Init ==
    /\ variant \in Variants
    /\ pc = IF variant = "serial" THEN "sample" ELSE "service"
    /\ now = U32(0, 100)
    /\ lastTime = U32(0, 0)
    /\ adcTherm = -1
    /\ adcLDR = -1
    /\ resistance = FracOfInt(0)
    /\ divisors = {}
    /\ currentTemp = 0
    /\ currentLightPercent = 0
    /\ currentStatus = STATUS_OK
    /\ buzzerDuty = 0
    /\ sent = NoResponse
    /\ ticked = FALSE
    /\ prevStatus = STATUS_OK
    /\ lastTick = [temp |-> 0, light |-> 0, status |-> STATUS_OK]

\* a handler that re-initialises the temperature
ServiceClobbers(resp, d) ==
    /\ variant \in WebVariants
    /\ pc = "service"
    /\ pc' = "sample"
    /\ now' = U32Add(now, d)
    /\ sent' = resp
    /\ currentTemp' = 0
    /\ UNCHANGED <<variant, lastTime, adcTherm, adcLDR, resistance, divisors,
                   currentLightPercent, currentStatus, buzzerDuty,
                   ticked, prevStatus, lastTick>>

\* server.handleClient() with the response resp sent, taking d milliseconds
Service(resp, d) ==
    /\ variant \in WebVariants
    /\ pc = "service"
    /\ pc' = "sample"
    /\ now' = U32Add(now, d)
    /\ sent' = resp
    /\ UNCHANGED <<variant, lastTime, adcTherm, adcLDR, resistance, divisors,
                   currentTemp, currentLightPercent, currentStatus, buzzerDuty,
                   ticked, prevStatus, lastTick>>

\* no request is pending
NoClient == \E d \in Delays : Service(NoResponse, d)

\* GET /
HandleRoot ==
    \E d \in Delays :
        Service([code |-> 200, type |-> "text/html",
                 body |-> <<"index_html">>, location |-> ""], d)

\* GET /readings
HandleReadings ==
    \E d \in Delays :
        Service([code |-> 200, type |-> "application/json",
                 body |-> ReadingsJson(currentTemp, currentLightPercent, currentStatus),
                 location |-> ""], d)

\* any other path
HandleNotFound ==
    \E d \in Delays :
        Service([code |-> 302, type |-> "text/plain", body |-> <<>>,
                 location |-> IF variant = "buzzer" THEN "http://solar.panel" ELSE "/"],
                d)

\* the sampling branch is not due: the loop iteration ends
SkipSample ==
    /\ variant \in WebVariants
    /\ pc = "sample"
    /\ ~SampleDue
    /\ pc' = "service"
    /\ sent' = NoResponse
    /\ UNCHANGED <<variant, now, lastTime, adcTherm, adcLDR, resistance, divisors,
                   currentTemp, currentLightPercent, currentStatus, buzzerDuty,
                   ticked, prevStatus, lastTick>>

\* the derivation pipeline on the thermistor code t and the photoresistor code l
Sample(t, l) ==
    /\ adcTherm' = t
    /\ resistance' = Resistance(t)
    /\ divisors' = ResistanceDivisors(t)
    /\ currentTemp' = Steinhart(resistance')
    /\ adcLDR' = l
    /\ currentLightPercent' = LightPercent(l)
    /\ currentStatus' = Classify(variant, currentTemp')
    /\ ticked' = TRUE
    /\ prevStatus' = currentStatus
    /\ lastTick' = [temp |-> currentTemp', light |-> currentLightPercent',
                    status |-> currentStatus']

\* the sampling branch of the web sketches; the second millis() may read a
\* millisecond later than the first
WebSample(inputs) ==
    /\ pc = "sample"
    /\ SampleDue
    /\ \E d \in {0, 1} :
        /\ now' = U32Add(now, d)
        /\ lastTime' = now'
    /\ \E in \in inputs : Sample(in[1], in[2])
    /\ pc' = "service"
    /\ sent' = NoResponse
    /\ UNCHANGED variant

BuzzerTick(inputs) ==
    /\ variant = "buzzer"
    /\ WebSample(inputs)
    /\ buzzerDuty' = BuzzerDutyFor(currentTemp')

WebTick(inputs) ==
    /\ variant = "web"
    /\ WebSample(inputs)
    /\ UNCHANGED buzzerDuty

\* one loop() of the serial sketch: sample, print, delay(1000); it never
\* reads the clock
SerialLoop(inputs) ==
    /\ variant = "serial"
    /\ \E in \in inputs : Sample(in[1], in[2])
    /\ UNCHANGED <<variant, pc, now, lastTime, buzzerDuty, sent>>

Next ==
    \/ NoClient
    \/ HandleRoot
    \/ HandleReadings
    \/ HandleNotFound
    \/ SkipSample
    \/ BuzzerTick(GridInputs)
    \/ WebTick(GridInputs)
    \/ SerialLoop(GridInputs)

Spec == Init /\ [][Next]_vars

-----------------------------------------------------------------------------
(* The first sampling tick over every code of the converter: every           *)
(* thermistor code with the photoresistor at SweepLdr, and every             *)
(* photoresistor code with the thermistor at SweepTherm.                     *)

SweepTherm == 1800
SweepLdr == 500

SweepInputs == (AdcCodes \X {SweepLdr}) \cup ({SweepTherm} \X AdcCodes)

\* the first pass through handleClient, with no client, takes LongDelay
FirstService == ~ticked /\ Service(NoResponse, LongDelay)

FirstBuzzerTick == ~ticked /\ BuzzerTick(SweepInputs)

FirstWebTick == ~ticked /\ WebTick(SweepInputs)

FirstSerialLoop == ~ticked /\ SerialLoop(SweepInputs)

SweepNext ==
    \/ FirstService
    \/ FirstBuzzerTick
    \/ FirstWebTick
    \/ FirstSerialLoop

SweepSpec == Init /\ [][SweepNext]_vars

-----------------------------------------------------------------------------
(* The clock over its wraparound: once millis() has passed MaxMillis, one    *)
(* pass through handleClient lasts until millis() = 2^32 - WrapMargin, and   *)
(* the loop then runs on through the wraparound. Loop iterations keep        *)
(* occurring (a loop() that returns is called again) and time keeps          *)
(* advancing (millis() is a free-running hardware timer).                    *)

ClockInputs == {<<SweepTherm, SweepLdr>>, <<0, ADC_MAX>>}

\* a pass through handleClient, with no client, that ends at WrapStart
Stall ==
    /\ variant \in WebVariants
    /\ pc = "service"
    /\ now[1] = 0
    /\ now[2] > MaxMillis
    /\ pc' = "sample"
    /\ now' = WrapStart
    /\ sent' = NoResponse
    /\ UNCHANGED <<variant, lastTime, adcTherm, adcLDR, resistance, divisors,
                   currentTemp, currentLightPercent, currentStatus, buzzerDuty,
                   ticked, prevStatus, lastTick>>

ClockInit == Init /\ variant \in WebVariants

ClockNext ==
    \/ NoClient
    \/ HandleRoot
    \/ HandleReadings
    \/ HandleNotFound
    \/ Stall
    \/ SkipSample
    \/ BuzzerTick(ClockInputs)
    \/ WebTick(ClockInputs)

\* a pass through handleClient during which millis() moves on
TimeAdvances ==
    /\ NoClient \/ HandleRoot \/ HandleReadings \/ HandleNotFound \/ Stall
    /\ now' # now

ClockTick == BuzzerTick(ClockInputs) \/ WebTick(ClockInputs)

\* weak fairness of the sampling branch, its enabling condition written out:
\* in a web sketch the branch is enabled exactly when the loop is at the
\* gate and the gate is open
TickFair == []<>~(pc = "sample" /\ SampleDue) \/ []<><<ClockTick>>_vars

ClockSpec ==
    /\ ClockInit
    /\ [][ClockNext]_vars
    /\ WF_vars(SkipSample)
    /\ TickFair
    /\ SF_vars(TimeAdvances)

-----------------------------------------------------------------------------
(* Properties *)

WARNING == <<"W", "A", "R", "N", "I", "N", "G">>

JsonSent == sent.type = "application/json"

\* C1: the light percentage is an integer in 0 .. 100 in every state, the
\* initial one included, and a tick that read code 0 leaves exactly 100 and
\* one that read code 4095 leaves exactly 0.  Checked over every code
\* (SweepSpec).
C1_LightPercentInRange ==
    /\ currentLightPercent \in 0 .. 100
    /\ ~ticked => currentLightPercent = 0
    /\ ticked /\ adcLDR = 0 => currentLightPercent = 100
    /\ ticked /\ adcLDR = ADC_MAX => currentLightPercent = 0

C1_Witness ==
    /\ variant \in WebVariants
    /\ ticked
    /\ adcLDR = 0
    /\ currentLightPercent = 100

\* the quotient num / den >= 0 rounded to the nearest integer
RoundNearest(num, den) == (2 * num + den) \div (2 * den)

\* C2 as stated: after a tick the light percentage is 100 - raw * 100 / 4095
\* rounded to the nearest integer (88 for raw 500, 50 for raw 2048).
C2_LightRoundedToNearest ==
    ticked =>
        /\ currentLightPercent = RoundNearest((ADC_MAX - adcLDR) * 100, ADC_MAX)
        /\ adcLDR = 500 => currentLightPercent = 88
        /\ adcLDR = 2048 => currentLightPercent = 50

\* C2 amended: after a tick the light percentage is 100 - raw * 100 / 4095
\* rounded down, the integer p with p <= (4095 - raw) * 100 / 4095 < p + 1
\* (87 for raw 500, 49 for raw 2048).
C2_LightTruncated ==
    ticked =>
        /\ currentLightPercent * ADC_MAX <= (ADC_MAX - adcLDR) * 100
        /\ (ADC_MAX - adcLDR) * 100 < (currentLightPercent + 1) * ADC_MAX
        /\ adcLDR = 500 => currentLightPercent = 87
        /\ adcLDR = 2048 => currentLightPercent = 49

C2_Witness ==
    /\ ticked
    /\ adcLDR = 2048
    /\ currentLightPercent = 49

\* C3: after every tick, in each sketch, the status is the warning exactly
\* when that tick's temperature is above the sketch's threshold and the
\* normal status otherwise, whatever the status was before the tick; a
\* temperature equal to the threshold classifies as normal.
C3_StatusFollowsLatestSample ==
    /\ ticked => (currentStatus = STATUS_WARNING
                    <=> currentTemp > TEMP_THRESHOLD(variant))
    /\ ticked => (currentStatus = NormalStatus(variant)
                    <=> currentTemp <= TEMP_THRESHOLD(variant))
    /\ Classify(variant, TEMP_THRESHOLD(variant)) = NormalStatus(variant)
    /\ Classify(variant, TEMP_THRESHOLD(variant) + 1) = STATUS_WARNING

\* a tick that flipped the status from warning back to normal
C3_Witness ==
    /\ ticked
    /\ prevStatus = STATUS_WARNING
    /\ currentStatus = NormalStatus(variant)
    /\ currentTemp <= TEMP_THRESHOLD(variant)

StatusOnWire(st) == st = STATUS_OK \/ st = STATUS_NORMAL \/ Contains(st, WARNING)

\* C4: in the web sketches the status held, and the status decoded from any
\* /readings payload, is "OK", "System Normal" or contains "WARNING"; it is
\* "OK" only while no tick has happened; a status that is "OK" or
\* "System Normal" does not contain "WARNING".
C4_StatusWireContract ==
    variant \in WebVariants =>
        /\ StatusOnWire(currentStatus)
        /\ currentStatus = STATUS_OK => ~ticked
        /\ currentStatus \in {STATUS_OK, STATUS_NORMAL}
              => ~Contains(currentStatus, WARNING)
        /\ JsonSent =>
              LET r == DecodeReadings(sent.body)
              IN  /\ r.ok
                  /\ StatusOnWire(r.status)
                  /\ r.status = STATUS_OK => ~ticked
                  /\ r.status \in {STATUS_OK, STATUS_NORMAL}
                        => ~Contains(r.status, WARNING)

\* a payload with a warning status, served after a tick
C4_Witness ==
    /\ variant \in WebVariants
    /\ ticked
    /\ JsonSent
    /\ Contains(DecodeReadings(sent.body).status, WARNING)

\* R_S * r / (ADC_MAX - r), which is R_S / (ADC_MAX / r - 1)
DividerClosedForm(r) == [n |-> SERIES_RESISTOR * r, d |-> ADC_MAX - r]

\* the codes r < r2 < ADC_MAX that r is compared with: the next and the last
CodesAbove(r) == {r2 \in {r + 1, ADC_MAX - 1} : r < r2 /\ r2 < ADC_MAX}

\* C5 as stated: for 0 < r < 4095 the resistance is R_S / (ADC_MAX / r - 1)
\* and a larger code gives a strictly smaller resistance.
C5_ResistanceDecreasing ==
    ticked /\ 0 < adcTherm /\ adcTherm < ADC_MAX =>
        /\ FracEq(resistance, DividerClosedForm(adcTherm))
        /\ \A r2 \in CodesAbove(adcTherm) : FracLess(Resistance(r2), resistance)

\* C5 amended: for 0 < r < 4095 the resistance is R_S / (ADC_MAX / r - 1)
\* and a larger code gives a strictly larger resistance.
C5_ResistanceIncreasing ==
    ticked /\ 0 < adcTherm /\ adcTherm < ADC_MAX =>
        /\ FracEq(resistance, DividerClosedForm(adcTherm))
        /\ \A r2 \in CodesAbove(adcTherm) : FracLess(resistance, Resistance(r2))

C5_Witness ==
    /\ ticked
    /\ adcTherm = 1000
    /\ FracLess(resistance, Resistance(1001))

\* C6: a tick that read code 0 leaves a resistance of exactly 1,000,000 and
\* one that read 4095 leaves exactly 0, neither evaluating a division; any
\* other tick divides only by non-zero, strictly positive values.
C6_SentinelsAndNoDivisionByZero ==
    ticked =>
        /\ adcTherm = 0 => resistance = FracOfInt(1000000) /\ divisors = {}
        /\ adcTherm >= ADC_MAX => resistance = FracOfInt(0) /\ divisors = {}
        /\ divisors # {} => adcTherm # 0
        /\ \A dv \in divisors : dv.n > 0 /\ dv.d > 0

C6_Witness ==
    /\ ticked
    /\ adcTherm = ADC_MAX - 1
    /\ divisors = {FracOfInt(ADC_MAX - 1), [n |-> 1, d |-> ADC_MAX - 1]}

\* lo <= x < hi for fractions
FracWithin(x, lo, hi) == ~FracLess(x, lo) /\ FracLess(x, hi)

\* C7 as stated: a tick with thermistor code 1800 gives about 7862 ohms and
\* about 28.9 degrees, and the normal status where the threshold is 30.0.
C7_Code1800Normal ==
    ticked /\ adcTherm = 1800 /\ variant \in {"web", "serial"} =>
        /\ FracWithin(resistance, [n |-> 15723, d |-> 2], [n |-> 15725, d |-> 2])
        /\ 28850 <= currentTemp /\ currentTemp < 28950
        /\ currentStatus = NormalStatus(variant)

\* C7 amended: a tick with thermistor code 1800 gives about 7843 ohms and
\* about 30.6 degrees, above the 30.0 threshold: the status is the warning
\* in the two sketches whose threshold is 30.0 (and normal in the buzzer
\* sketch, whose threshold is 32.5).
C7_Code1800Warning ==
    ticked /\ adcTherm = 1800 =>
        /\ FracWithin(resistance, [n |-> 15685, d |-> 2], [n |-> 15687, d |-> 2])
        /\ 30550 <= currentTemp /\ currentTemp < 30650
        /\ variant \in {"web", "serial"} => currentStatus = STATUS_WARNING
        /\ variant = "buzzer" => currentStatus = STATUS_NORMAL

C7_Witness ==
    /\ ticked
    /\ adcTherm = 1800
    /\ variant = "web"
    /\ currentStatus = STATUS_WARNING

\* C8 as stated: a tick with thermistor code 0 (resistance 1,000,000) gives
\* about -86.7 degrees and the normal status.
C8_Code0Minus86 ==
    ticked /\ adcTherm = 0 =>
        /\ resistance = FracOfInt(1000000)
        /\ 0 - 86750 <= currentTemp /\ currentTemp < 0 - 86650
        /\ currentStatus = NormalStatus(variant)

\* C8 amended: a tick with thermistor code 0 (resistance 1,000,000) gives
\* about -51.9 degrees and the normal status.
C8_Code0Minus51 ==
    ticked /\ adcTherm = 0 =>
        /\ resistance = FracOfInt(1000000)
        /\ 0 - 51950 <= currentTemp /\ currentTemp < 0 - 51850
        /\ currentStatus = NormalStatus(variant)

C8_Witness ==
    /\ ticked
    /\ adcTherm = 0
    /\ currentStatus = NormalStatus(variant)

Snapshot == <<currentTemp, currentLightPercent, currentStatus>>

\* what C9 says of one step
SnapshotStep ==
    variant \in WebVariants =>
        /\ pc = "service" => UNCHANGED <<Snapshot, lastTime>>
        /\ Snapshot' # Snapshot => pc = "sample" /\ SampleDue /\ ticked'
        /\ ~ticked' => lastTick' = [temp |-> 0, light |-> 0, status |-> STATUS_OK]
        /\ sent'.type = "application/json" =>
              sent'.body = ReadingsJson(lastTick.temp, lastTick.light, lastTick.status)

\* C9: in the web sketches a pass through handleClient (no client, /,
\* /readings or any other path) leaves the snapshot and lastTime unchanged;
\* the snapshot changes only in the sampling branch; and a /readings payload
\* is the serialisation of the triple the latest tick wrote, or of
\* (0.0, 0, "OK") before the first tick.
C9_SnapshotFrame == [][SnapshotStep]_vars

\* a payload served between two ticks, after a tick changed the snapshot
C9_Witness ==
    /\ variant \in WebVariants
    /\ ticked
    /\ pc = "sample"
    /\ ~SampleDue
    /\ JsonSent
    /\ sent.body = ReadingsJson(lastTick.temp, lastTick.light, lastTick.status)
    /\ lastTick.light = 100

\* C10 as stated: a /readings payload decodes to the (temp, light, status)
\* held in the snapshot.
C10_RoundTripExact ==
    variant \in WebVariants /\ JsonSent =>
        DecodeReadings(sent.body)
            = [ok |-> TRUE, temp |-> currentTemp,
               light |-> currentLightPercent, status |-> currentStatus]

\* C10 amended: a /readings payload decodes to the snapshot's light and
\* status and to its temperature rounded to two decimal places.
C10_RoundTripTwoDecimals ==
    variant \in WebVariants /\ JsonSent =>
        DecodeReadings(sent.body)
            = [ok |-> TRUE, temp |-> 10 * RoundToCents(currentTemp),
               light |-> currentLightPercent, status |-> currentStatus]

\* the payload after a tick that read the saturation code 4095
C10_Witness ==
    /\ variant \in WebVariants
    /\ ticked
    /\ adcTherm = ADC_MAX
    /\ JsonSent
    /\ DecodeReadings(sent.body).temp = 0 - 273150

\* what C12 says of one step of the buzzer sketch
BuzzerStep ==
    variant = "buzzer" =>
        /\ ticked' => (buzzerDuty' = 128 <=> currentStatus' = STATUS_WARNING)
        /\ ticked' => (buzzerDuty' = 0 <=> currentStatus' = STATUS_NORMAL)
        /\ buzzerDuty' # buzzerDuty \/ currentStatus' # currentStatus
              => pc = "sample" /\ pc' = "service" /\ lastTime' # lastTime

\* C12: in the buzzer sketch, in every state after a tick the duty is 128
\* exactly when the status is the warning and 0 exactly when it is normal,
\* whatever the duty was before the tick; only a sampling tick changes the
\* duty or the status.
C12_BuzzerMirrorsStatus == [][BuzzerStep]_vars

\* a tick that switched the buzzer off again
C12_Witness ==
    /\ variant = "buzzer"
    /\ ticked
    /\ prevStatus = STATUS_WARNING
    /\ currentStatus = STATUS_NORMAL
    /\ buzzerDuty = 0

\* the step wrote the snapshot or lastTime
Overwrites ==
    \/ Snapshot' # Snapshot
    \/ lastTime' # lastTime
    \/ lastTick' # lastTick
    \/ ticked' # ticked

\* what C11 says of one step of a web sketch
GateStep ==
    Overwrites =>
        /\ pc = "sample" /\ pc' = "service"
        /\ U32Gt(U32Sub(now, lastTime), 1000)
        /\ lastTime' = now'
        /\ U32Sub(now', now) \in {U32(0, 0), U32(0, 1)}
        /\ U32Gt(U32Sub(lastTime', lastTime), 1000)
        /\ ~ticked => now[1] > 0 \/ now[2] > 1000

\* C11: in the web sketches the snapshot is overwritten only by the step that
\* ends a loop iteration, only when millis() - lastTime modulo 2^32 is
\* strictly greater than 1000, and lastTime becomes the millis() read then, so
\* consecutive overwrites are more than 1000 ms apart modulo 2^32 and none
\* happens while millis() <= 1000 after boot; and while loop iterations keep
\* occurring and time keeps advancing, a further overwrite always eventually
\* happens.
C11_MillisGate == [][GateStep]_vars /\ []<><<Overwrites>>_vars

\* an overwrite at a millis() that has wrapped around, the previous one
\* having been before the wraparound
C11_Witness ==
    /\ ticked
    /\ pc = "service"
    /\ lastTime = now
    /\ now[1] = 0
    /\ now[2] <= 1000

=============================================================================
